---- MODULE Spec2Model ----
(***************************************************************************)
(* Task List Manager (src/index.js): a task store persisted in tasks.json, *)
(* with three tool handlers (add_task, list_tasks, complete_task) and one  *)
(* resource (task_list).  Every handler is an async function that suspends *)
(* at each fs.readFile / fs.writeFile; the model gives each in-flight call *)
(* a slot with a program counter at those suspension points.               *)
(*                                                                         *)
(* The file text is modelled as a sequence of JSON tokens (punctuation,    *)
(* keys, strings, numbers, booleans and the newline+indent whitespace that *)
(* JSON.stringify(v, null, 2) emits); JSONstringify and JSONparse are the  *)
(* two conversions between the text and the in-memory value.               *)
(***************************************************************************)
EXTENDS Integers, Sequences, FiniteSets, TLC

\* ------------------------------------------------------------------ bounds
MaxCalls == 2       \* handler executions that may be in flight together
MaxOps == 3         \* calls and external writes in one behaviour
MaxClock == 1       \* last instant the clock reaches
MaxExternal == 1    \* writes to tasks.json from outside the store
MaxFaults == 1      \* storage accesses that fail with an error other than ENOENT
MaxSeed == 2        \* tasks in a collection handed to getNextId as found
MaxSeedId == 3      \* largest id in such a collection

Titles == {"Buy milk", "b"}
Slots == 1..MaxCalls
CallIds == 1..MaxOps

\* ------------------------------------------------------------ JSON tokens
Tok(k, n, s) == [k |-> k, n |-> n, s |-> s]
P(k) == Tok(k, 0, "")              \* punctuation and literals: [ ] { } , : true false null
Ws(n) == Tok("ws", n, "")          \* a newline followed by n spaces
Key(s) == Tok("key", 0, s)         \* "name" before a colon
Str(s) == Tok("str", 0, s)
Num(n) == Tok("num", n, "")
Bool(b) == IF b THEN P("true") ELSE P("false")

\* ------------------------------------------------------- in-memory values
\* A JavaScript value as JSON.parse returns it: an array of task objects, or
\* (for a file written from outside) null or an object that is no array.
Arr(items) == [type |-> "array", items |-> items]
JsNull == [type |-> "null", items |-> <<>>]
JsObject == [type |-> "object", items |-> <<>>]
Task(id, title, completed, createdAt) ==
    [id |-> id, title |-> title, completed |-> completed, createdAt |-> createdAt]

\* new Date().toISOString(): the ISO-8601 text of instant d
IsoTable ==
    << "1970-01-01T00:00:00.000Z", "1970-01-01T00:00:00.001Z",
       "1970-01-01T00:00:00.002Z", "1970-01-01T00:00:00.003Z",
       "1970-01-01T00:00:00.004Z" >>
toISOString(d) == IsoTable[d + 1]

\* ------------------------------------------------------------ JSON.stringify
\* One task object at indent 2, as JSON.stringify(tasks, null, 2) prints it.
StringifyTask(t) ==
    << Ws(2), P("{"),
       Ws(4), Key("id"), P(":"), Num(t.id), P(","),
       Ws(4), Key("title"), P(":"), Str(t.title), P(","),
       Ws(4), Key("completed"), P(":"), Bool(t.completed), P(","),
       Ws(4), Key("createdAt"), P(":"), Str(t.createdAt),
       Ws(2), P("}") >>

RECURSIVE StringifyItems(_)
StringifyItems(items) ==
    IF Len(items) = 0 THEN <<>>
    ELSE IF Len(items) = 1 THEN StringifyTask(items[1])
    ELSE StringifyTask(items[1]) \o <<P(",")>> \o StringifyItems(Tail(items))

JSONstringify(v) ==
    CASE v.type = "null" -> <<P("null")>>
      [] v.type = "object" -> <<P("{"), P("}")>>
      [] v.type = "array" ->
            IF Len(v.items) = 0 THEN <<P("["), P("]")>>
            ELSE <<P("[")>> \o StringifyItems(v.items) \o <<Ws(0), P("]")>>

\* --------------------------------------------------------------- JSON.parse
IsWs(t) == t.k = "ws"
SkipWs(text) == SelectSeq(text, LAMBDA t : ~IsWs(t))

\* tokens of one task object once whitespace is skipped: braces, four
\* key-colon-value triples and three commas
ObjLen == 1 + 4 * 3 + 3 + 1

\* Whether s[p .. p+16] is a task object: { "id": n, "title": s, "completed": b, "createdAt": s }
IsTaskObject(s, p) ==
    /\ p + ObjLen - 1 <= Len(s)
    /\ s[p] = P("{")
    /\ s[p + 1] = Key("id") /\ s[p + 2] = P(":") /\ s[p + 3].k = "num"
    /\ s[p + 4] = P(",")
    /\ s[p + 5] = Key("title") /\ s[p + 6] = P(":") /\ s[p + 7].k = "str"
    /\ s[p + 8] = P(",")
    /\ s[p + 9] = Key("completed") /\ s[p + 10] = P(":") /\ s[p + 11].k \in {"true", "false"}
    /\ s[p + 12] = P(",")
    /\ s[p + 13] = Key("createdAt") /\ s[p + 14] = P(":") /\ s[p + 15].k = "str"
    /\ s[p + 16] = P("}")

TaskAt(s, p) == Task(s[p + 3].n, s[p + 7].s, s[p + 11].k = "true", s[p + 15].s)

SyntaxError == [ok |-> FALSE, value |-> JsNull]
Parsed(v) == [ok |-> TRUE, value |-> v]

\* The elements of an array from position p on, up to the closing bracket,
\* which must be the last token.
RECURSIVE ParseItems(_, _, _)
ParseItems(s, p, acc) ==
    IF ~IsTaskObject(s, p) THEN SyntaxError
    ELSE LET q == p + ObjLen
             acc2 == Append(acc, TaskAt(s, p))
         IN  IF q > Len(s) THEN SyntaxError
             ELSE IF s[q] = P("]") THEN (IF q = Len(s) THEN Parsed(Arr(acc2)) ELSE SyntaxError)
             ELSE IF s[q] = P(",") THEN ParseItems(s, q + 1, acc2)
             ELSE SyntaxError

\* JSON.parse on the texts the model writes: null, {}, and arrays of task
\* objects; every other token sequence (the empty text, a truncated array) is
\* a SyntaxError.
JSONparse(text) ==
    LET s == SkipWs(text)
    IN  IF s = <<P("null")>> THEN Parsed(JsNull)
        ELSE IF s = <<P("{"), P("}")>> THEN Parsed(JsObject)
        ELSE IF s = <<P("["), P("]")>> THEN Parsed(Arr(<<>>))
        ELSE IF Len(s) >= 1 /\ s[1] = P("[") THEN ParseItems(s, 2, <<>>)
        ELSE SyntaxError

\* ------------------------------------------------------------------- state
VARIABLES
    file,       \* tasks.json: [exists, text]
    readTasksDecl, \* which of the two declarations of readTasks is bound (1: line 34, 2: line 287)
    clock,      \* the instant the last new Date() returned
    calls,      \* per slot: the handler execution in flight, or idle
    log         \* the calls that have returned and the external writes, in order

vars == <<file, readTasksDecl, clock, calls, log>>

Missing == [exists |-> FALSE, text |-> <<>>]
FileOf(text) == [exists |-> TRUE, text |-> text]

\* ----------------------------------------------------------------- results
NoResult ==
    [kind |-> "none", isError |-> FALSE, id |-> 0, title |-> "", createdAt |-> "",
     count |-> 0, lines |-> <<>>, text |-> <<>>]
\* add_task, lines 124-131
Added(t) == [NoResult EXCEPT !.kind = "added", !.id = t.id, !.title = t.title,
                             !.createdAt = t.createdAt]
\* list_tasks, lines 147-149
NoTasksYet == [NoResult EXCEPT !.kind = "empty"]
\* list_tasks, lines 153-167
\* the status labels of line 155 exchanged
Line_StatusExchanged(t) ==
    [id |-> t.id, title |-> t.title,
     status |-> IF t.completed THEN "pending" ELSE "done",
     createdAt |-> t.createdAt]
Line(t) == [id |-> t.id, title |-> t.title,
            status |-> IF t.completed THEN "done" ELSE "pending",
            createdAt |-> t.createdAt]
Listing(items) ==
    [NoResult EXCEPT !.kind = "listing", !.count = Len(items),
                     !.lines = [i \in 1..Len(items) |-> Line(items[i])]]
\* the not-found result without isError: true (line 190)
NotFound_Unflagged(id) == [NoResult EXCEPT !.kind = "notfound", !.id = id]
\* complete_task, lines 189-197, 202-209, 216-223
NotFound(id) == [NoResult EXCEPT !.kind = "notfound", !.isError = TRUE, !.id = id]
AlreadyCompleted(id, t) == [NoResult EXCEPT !.kind = "already", !.id = id, !.title = t.title]
MarkedCompleted(id, t) == [NoResult EXCEPT !.kind = "completed", !.id = id, !.title = t.title]
\* task_list resource, lines 236-244
Contents(v) == [NoResult EXCEPT !.kind = "json", !.text = JSONstringify(v)]
\* an exception that leaves the handler (a TypeError on a value that is no array)
Thrown == [NoResult EXCEPT !.kind = "throw"]
\* a storage error that leaves the handler unchanged ("throw error", line 60)
Rethrown(code) == [NoResult EXCEPT !.kind = "throw", !.text = <<Str(code)>>]

\* ------------------------------------------------------------- getNextId
RECURSIVE MaxId(_)
MaxId(items) ==
    IF Len(items) = 1 THEN items[1].id
    ELSE LET m == MaxId(Tail(items)) IN IF items[1].id > m THEN items[1].id ELSE m

\* getNextId without the "+ 1" of line 82
getNextId_NoIncrement(items) == IF Len(items) = 0 THEN 1 ELSE MaxId(items)

\* getNextId that counts on from the last task of the array
getNextId_FromLast(items) == IF Len(items) = 0 THEN 1 ELSE items[Len(items)].id + 1

getNextId(items) == IF Len(items) = 0 THEN 1 ELSE MaxId(items) + 1

\* tasks.find((t) => t.id === id): the index of the first match, 0 when none
Find(items, id) ==
    IF \E i \in 1..Len(items) : items[i].id = id
    THEN CHOOSE i \in 1..Len(items) :
            /\ items[i].id = id
            /\ \A j \in 1..(i - 1) : items[j].id # id
    ELSE 0

\* --------------------------------------------------------------- the calls
Idle ==
    [pc |-> "idle", op |-> "", title |-> "", id |-> 0, tasks |-> JsNull,
     pre |-> Missing, saves |-> 0, resets |-> 0, fault |-> "", result |-> NoResult]

InFlight == {s \in Slots : calls[s].pc # "idle"}
AllIdle == InFlight = {}
Externals == Len(SelectSeq(log, LAMBDA e : e.op = "external"))
Budget == Len(log) + Cardinality(InFlight) < MaxOps

Entry(c, post) ==
    [op |-> c.op, title |-> c.title, id |-> c.id, pre |-> c.pre, post |-> post,
     saves |-> c.saves, resets |-> c.resets, fault |-> c.fault, result |-> c.result]

Init ==
    /\ file = Missing
    /\ readTasksDecl \in {1, 2}
    /\ clock = 0
    /\ calls = [s \in Slots |-> Idle]
    /\ log = <<>>

\* The handler is invoked and runs to its first await, fs.readFile in readTasks.
StartCall(s, op, title, id) ==
    /\ calls[s].pc = "idle"
    /\ Budget
    /\ calls' = [calls EXCEPT ![s] =
                    [Idle EXCEPT !.pc = "read", !.op = op, !.title = title, !.id = id,
                                 !.pre = file]]
    /\ UNCHANGED <<file, readTasksDecl, clock, log>>

\* The call in slot c returns result r; the file is f when it does.
Return(s, c, r, f) ==
    /\ calls' = [calls EXCEPT ![s] = Idle]
    /\ log' = Append(log, Entry([c EXCEPT !.result = r], f))

\* The handler in slot s awaits writeTasks(tasks) with this result pending.
AwaitWrite(s, c, v, r) ==
    /\ calls' = [calls EXCEPT ![s] = [c EXCEPT !.pc = "write", !.tasks = v, !.result = r]]
    /\ log' = log

\* add_task that puts the new task in front (unshift in place of push)
AddAfterLoad_Prepends(s, c, v, f) ==
    IF v.type # "array" THEN Return(s, c, Thrown, f) /\ clock' = clock
    ELSE \E now \in {t \in {clock, clock + 1} : t <= MaxClock} :
            LET newTask == Task(getNextId(v.items), c.title, FALSE, toISOString(now))
            IN  /\ AwaitWrite(s, c, Arr(<<newTask>> \o v.items), Added(newTask))
                /\ clock' = now

\* add_task after readTasks returned v (lines 112-121); new Date() returns
\* the instant of the last reading or a later one.
AddAfterLoad(s, c, v, f) ==
    IF v.type # "array" THEN Return(s, c, Thrown, f) /\ clock' = clock
    ELSE \E now \in {t \in {clock, clock + 1} : t <= MaxClock} :
            LET newTask == Task(getNextId(v.items), c.title, FALSE, toISOString(now))
            IN  /\ AwaitWrite(s, c, Arr(Append(v.items, newTask)), Added(newTask))
                /\ clock' = now

\* list_tasks that writes the loaded array back before it returns
ListAfterLoad_WritesBack(s, c, v, f) ==
    IF v.type # "array" THEN Return(s, c, Thrown, f)
    ELSE IF Len(v.items) = 0 THEN AwaitWrite(s, c, v, NoTasksYet)
    ELSE AwaitWrite(s, c, v, Listing(v.items))

\* list_tasks after readTasks returned v (lines 146-167)
ListAfterLoad(s, c, v, f) ==
    IF v.type # "array" THEN Return(s, c, Thrown, f)
    ELSE IF Len(v.items) = 0 THEN Return(s, c, NoTasksYet, f)
    ELSE Return(s, c, Listing(v.items), f)

\* complete_task without the "already completed" test of line 201
CompleteAfterLoad_NoAlreadyCheck(s, c, v, f) ==
    IF v.type # "array" THEN Return(s, c, Thrown, f)
    ELSE LET i == Find(v.items, c.id)
         IN  IF i = 0 THEN Return(s, c, NotFound(c.id), f)
             ELSE AwaitWrite(s, c, Arr([v.items EXCEPT ![i].completed = TRUE]),
                             MarkedCompleted(c.id, v.items[i]))

\* complete_task that marks tasks[0] instead of the task found (line 213)
CompleteAfterLoad_MarksFirst(s, c, v, f) ==
    IF v.type # "array" THEN Return(s, c, Thrown, f)
    ELSE LET i == Find(v.items, c.id)
         IN  IF i = 0 THEN Return(s, c, NotFound(c.id), f)
             ELSE IF v.items[i].completed THEN Return(s, c, AlreadyCompleted(c.id, v.items[i]), f)
             ELSE AwaitWrite(s, c, Arr([v.items EXCEPT ![1].completed = TRUE]),
                             MarkedCompleted(c.id, v.items[i]))

\* complete_task after readTasks returned v (lines 186-214)
CompleteAfterLoad(s, c, v, f) ==
    IF v.type # "array" THEN Return(s, c, Thrown, f)
    ELSE LET i == Find(v.items, c.id)
         IN  IF i = 0 THEN Return(s, c, NotFound(c.id), f)
             ELSE IF v.items[i].completed THEN Return(s, c, AlreadyCompleted(c.id, v.items[i]), f)
             ELSE AwaitWrite(s, c, Arr([v.items EXCEPT ![i].completed = TRUE]),
                             MarkedCompleted(c.id, v.items[i]))

\* the task_list resource after readTasks returned v (lines 236-244)
ResourceAfterLoad(s, c, v, f) == Return(s, c, Contents(v), f)

AfterLoad(s, c, v, f) ==
    CASE c.op = "add_task" -> AddAfterLoad(s, c, v, f)
      [] c.op = "list_tasks" -> ListAfterLoad(s, c, v, f) /\ clock' = clock
      [] c.op = "complete_task" -> CompleteAfterLoad(s, c, v, f) /\ clock' = clock
      [] c.op = "task_list" -> ResourceAfterLoad(s, c, v, f) /\ clock' = clock

\* ---------------------------------------------------------------- readTasks
\* What fs.readFile followed by JSON.parse yields on the file as it is now.
ReadOutcome ==
    IF ~file.exists THEN "ENOENT"
    ELSE IF ~JSONparse(file.text).ok THEN "SyntaxError"
    ELSE "ok"

\* writeTasks(tasks): the text fs.writeFile puts in tasks.json
writeTasks(v) == FileOf(JSONstringify(v))

\* readTasks as declared at line 34: a missing or unparsable file is
\* replaced by an empty array on disk (await writeTasks([])) before [] is returned.
readTasks1(s, c) ==
    IF ReadOutcome = "ok"
    THEN file' = file /\ AfterLoad(s, c, JSONparse(file.text).value, file)
    ELSE /\ file' = file
         /\ calls' = [calls EXCEPT ![s].pc = "reset"]
         /\ log' = log
         /\ clock' = clock

\* readTasks of line 287 that starts fresh on ENOENT only: a SyntaxError is
\* thrown again.
readTasks2_OnlyENOENT(s, c) ==
    /\ file' = file
    /\ IF ReadOutcome = "ok"
       THEN AfterLoad(s, c, JSONparse(file.text).value, file)
       ELSE IF ReadOutcome = "ENOENT"
       THEN AfterLoad(s, c, Arr(<<>>), file)
       ELSE Return(s, c, Thrown, file) /\ clock' = clock

\* readTasks as declared at line 287: a missing or unparsable file yields []
\* and the file is left as it is.
readTasks2(s, c) ==
    /\ file' = file
    /\ IF ReadOutcome = "ok"
       THEN AfterLoad(s, c, JSONparse(file.text).value, file)
       ELSE AfterLoad(s, c, Arr(<<>>), file)

\* fs.readFile completes in the call of slot s; the handler runs on to its
\* next await or to its return.
ReadStep(s) ==
    /\ calls[s].pc = "read"
    /\ IF readTasksDecl = 1 THEN readTasks1(s, calls[s]) ELSE readTasks2(s, calls[s])
    /\ UNCHANGED readTasksDecl

\* readTasks' catch block without the "return []" of lines 47 and 55: after
\* writeTasks([]) it falls through to "throw error".
ResetStep_NoReturn(s) ==
    /\ calls[s].pc = "reset"
    /\ file' = writeTasks(Arr(<<>>))
    /\ Return(s, [calls[s] EXCEPT !.resets = @ + 1], Thrown, file')
    /\ UNCHANGED <<readTasksDecl, clock>>

\* The writeTasks([]) of readTasks' catch block completes (lines 46-47, 54-55).
ResetStep(s) ==
    /\ calls[s].pc = "reset"
    /\ file' = writeTasks(Arr(<<>>))
    /\ AfterLoad(s, [calls[s] EXCEPT !.resets = @ + 1], Arr(<<>>), file')
    /\ UNCHANGED readTasksDecl

\* The handler's writeTasks(tasks) completes and the handler returns
\* (lines 121-131, 214-223).
WriteStep(s) ==
    /\ calls[s].pc = "write"
    /\ file' = writeTasks(calls[s].tasks)
    /\ Return(s, [calls[s] EXCEPT !.saves = @ + 1], calls[s].result, file')
    /\ UNCHANGED <<readTasksDecl, clock>>

\* ---------------------------------------------------------- storage failures
Faults == Len(SelectSeq(log, LAMBDA e : e.fault # ""))

\* readTasks' catch block on an error that is neither ENOENT nor a
\* SyntaxError, taken for any error: the file is reset as for a missing file.
ReadFails_Recovered(s) ==
    /\ calls[s].pc = "read"
    /\ Faults < MaxFaults
    /\ calls' = [calls EXCEPT ![s] = [calls[s] EXCEPT !.pc = "reset", !.fault = "readFile"]]
    /\ UNCHANGED <<file, readTasksDecl, clock, log>>

\* fs.readFile rejects with EACCES: neither test of the catch block matches
\* and the error is thrown again (lines 58-60, line 296); the handler's
\* await readTasks() throws and the call is rejected.
ReadFails(s) ==
    /\ calls[s].pc = "read"
    /\ Faults < MaxFaults
    /\ Return(s, [calls[s] EXCEPT !.fault = "readFile"], Rethrown("EACCES"), file)
    /\ UNCHANGED <<file, readTasksDecl, clock>>

\* fs.writeFile rejects with EACCES, in writeTasks(tasks) (lines 121, 214) or
\* in the writeTasks([]) of the catch block (lines 46, 54): nothing catches it.
WriteFails(s) ==
    /\ calls[s].pc \in {"write", "reset"}
    /\ Faults < MaxFaults
    /\ Return(s, [calls[s] EXCEPT !.fault = "writeFile"], Rethrown("EACCES"), file)
    /\ UNCHANGED <<file, readTasksDecl, clock>>

\* ------------------------------------------------------------ the four calls
AddTask(s, title) == s \in Slots /\ StartCall(s, "add_task", title, 0)
ListTasks(s) == s \in Slots /\ StartCall(s, "list_tasks", "", 0)
CompleteTask(s, id) == s \in Slots /\ StartCall(s, "complete_task", "", id)
ReadTaskList(s) == s \in Slots /\ StartCall(s, "task_list", "", 0)

\* The same calls from a caller that awaits each result before the next call.
SeqAddTask(s, title) == AllIdle /\ AddTask(s, title)
SeqListTasks(s) == AllIdle /\ ListTasks(s)
SeqCompleteTask(s, id) == AllIdle /\ CompleteTask(s, id)
SeqReadTaskList(s) == AllIdle /\ ReadTaskList(s)

\* ------------------------------------------------------------ environment
\* Texts another program may leave in tasks.json: an empty file, a truncated
\* array (both rejected by JSON.parse) and an object that is no array.
ExternalTexts ==
    { <<>>,
      <<P("["), Ws(2), P("{")>>,
      <<P("{"), P("}")>> }

ExternalWrite(text) ==
    /\ AllIdle
    /\ Budget
    /\ Externals < MaxExternal
    /\ file' = FileOf(text)
    /\ log' = Append(log, Entry([Idle EXCEPT !.op = "external", !.pre = file], file'))
    /\ UNCHANGED <<readTasksDecl, clock, calls>>

\* ------------------------------------------------------------ specifications
\* Calls are issued whenever a slot is free: handler executions overlap.
Next ==
    \/ \E s \in Slots, t \in Titles : AddTask(s, t)
    \/ \E s \in Slots : ListTasks(s)
    \/ \E s \in Slots, id \in CallIds : CompleteTask(s, id)
    \/ \E s \in Slots : ReadTaskList(s)
    \/ \E s \in Slots : ReadStep(s)
    \/ \E s \in Slots : ResetStep(s)
    \/ \E s \in Slots : WriteStep(s)
    \/ \E text \in ExternalTexts : ExternalWrite(text)

Spec == Init /\ [][Next]_vars

\* One call at a time: each call is issued only after the previous one returned.
NextSeq ==
    \/ \E s \in Slots, t \in Titles : SeqAddTask(s, t)
    \/ \E s \in Slots : SeqListTasks(s)
    \/ \E s \in Slots, id \in CallIds : SeqCompleteTask(s, id)
    \/ \E s \in Slots : SeqReadTaskList(s)
    \/ \E s \in Slots : ReadStep(s)
    \/ \E s \in Slots : ResetStep(s)
    \/ \E s \in Slots : WriteStep(s)
    \/ \E text \in ExternalTexts : ExternalWrite(text)

SpecSeq == Init /\ [][NextSeq]_vars

\* One call at a time, on storage whose reads and writes may be denied.
NextFaults ==
    \/ \E s \in Slots, t \in Titles : SeqAddTask(s, t)
    \/ \E s \in Slots : SeqListTasks(s)
    \/ \E s \in Slots, id \in CallIds : SeqCompleteTask(s, id)
    \/ \E s \in Slots : SeqReadTaskList(s)
    \/ \E s \in Slots : ReadStep(s)
    \/ \E s \in Slots : ResetStep(s)
    \/ \E s \in Slots : WriteStep(s)
    \/ \E s \in Slots : ReadFails(s)
    \/ \E s \in Slots : WriteFails(s)
    \/ \E text \in ExternalTexts : ExternalWrite(text)

SpecFaults == Init /\ [][NextFaults]_vars

\* add_task, one call at a time, on a tasks.json found with any collection of
\* at most MaxSeed tasks in it: ids in any order, with gaps, or repeated.
SeedTask(id) == Task(id, "Buy milk", FALSE, toISOString(0))
SeedCollections ==
    UNION {[1..n -> {SeedTask(id) : id \in 1..MaxSeedId}] : n \in 0..MaxSeed}

InitSeeded ==
    /\ file \in {Missing} \cup {writeTasks(Arr(items)) : items \in SeedCollections}
    /\ readTasksDecl \in {1, 2}
    /\ clock = 0
    /\ calls = [s \in Slots |-> Idle]
    /\ log = <<>>

NextSeeded ==
    \/ \E s \in Slots, t \in Titles : SeqAddTask(s, t)
    \/ \E s \in Slots : ReadStep(s)
    \/ \E s \in Slots : ResetStep(s)
    \/ \E s \in Slots : WriteStep(s)

SpecSeeded == InitSeeded /\ [][NextSeeded]_vars

\* Overlapping calls of the two tools that save tasks, on a store that starts
\* missing and that nothing else writes.
NextWriters ==
    \/ \E s \in Slots : AddTask(s, "Buy milk")
    \/ \E s \in Slots, id \in CallIds : CompleteTask(s, id)
    \/ \E s \in Slots : ReadStep(s)
    \/ \E s \in Slots : ResetStep(s)
    \/ \E s \in Slots : WriteStep(s)

SpecWriters == Init /\ [][NextWriters]_vars

\* ------------------------------------------------------- reading the log
\* Whether f holds a well-formed array of task records.
IsCollection(f) ==
    /\ f.exists
    /\ JSONparse(f.text).ok
    /\ JSONparse(f.text).value.type = "array"

\* Whether a load of f yields a collection: f is one, or f is missing or
\* not JSON (an empty collection then).
Loadable(f) == ~f.exists \/ ~JSONparse(f.text).ok \/ IsCollection(f)

\* The collection a load of f yields.
Stored(f) == IF IsCollection(f) THEN JSONparse(f.text).value.items ELSE <<>>

IdsOf(items) == {items[i].id : i \in 1..Len(items)}
IsCall(e) == e.op # "external"
AddsBefore(i) == SelectSeq(SubSeq(log, 1, i - 1), LAMBDA e : e.op = "add_task")

\* ---------------------------------------------------------------------- C1
\* C1: with tasks.json written by the store alone, every add_task returns an
\* id strictly greater than the id of every earlier add_task, and the stored
\* collection is one task longer after the call than before it.
C1_AddIdsIncrease ==
    Externals = 0 =>
        \A j \in 1..Len(log) :
            log[j].op = "add_task" =>
                /\ log[j].result.kind = "added"
                /\ \A i \in 1..(j - 1) :
                      log[i].op = "add_task" => log[j].result.id > log[i].result.id
                /\ Len(Stored(log[j].post)) = Len(Stored(log[j].pre)) + 1

C1_Witness ==
    /\ Externals = 0
    /\ Len(log) = 3
    /\ \A j \in 1..3 : log[j].op = "add_task"
    /\ Len(Stored(file)) = 3

\* ---------------------------------------------------------------------- C2
\* C2: of two successive complete_task(id) calls on a task that is stored
\* with completed = false, the first sets completed, saves once and reports
\* success; the second reports "already completed", writes nothing and leaves
\* the file exactly as the first call left it.
C2_CompleteTwice ==
    \A i \in 1..(Len(log) - 1) :
        LET a == log[i]
            b == log[i + 1]
            k == Find(Stored(a.pre), a.id)
        IN  ( /\ a.op = "complete_task" /\ b.op = "complete_task" /\ a.id = b.id
              /\ k # 0
              /\ ~Stored(a.pre)[k].completed )
            =>
            /\ a.result.kind = "completed" /\ ~a.result.isError
            /\ a.saves = 1
            /\ Stored(a.post)[k].completed
            /\ b.result.kind = "already" /\ ~b.result.isError
            /\ b.saves = 0 /\ b.resets = 0
            /\ b.post = a.post

C2_Witness ==
    /\ Len(log) = 3
    /\ log[1].op = "add_task"
    /\ log[2].op = "complete_task" /\ log[2].id = 1 /\ log[2].result.kind = "completed"
    /\ log[3].op = "complete_task" /\ log[3].id = 1 /\ log[3].result.kind = "already"

\* ---------------------------------------------------------------------- C3
\* C3: complete_task(id) with an id that no task of the loaded collection
\* has returns the result flagged isError, which names the id and is neither
\* the success nor the "already completed" result; the handler saves nothing
\* and the stored collection is the same after the call as before it.
C3_NotFound ==
    \A i \in 1..Len(log) :
        LET e == log[i]
        IN  ( /\ e.op = "complete_task"
              /\ Loadable(e.pre)
              /\ e.id \notin IdsOf(Stored(e.pre)) )
            =>
            /\ e.result.kind = "notfound"
            /\ e.result.isError
            /\ e.result.id = e.id
            /\ e.saves = 0
            /\ Stored(e.post) = Stored(e.pre)

C3_Witness ==
    \E i \in 1..Len(log) :
        /\ log[i].op = "complete_task"
        /\ Len(Stored(log[i].pre)) >= 1
        /\ log[i].id \notin IdsOf(Stored(log[i].pre))
        /\ log[i].result.kind = "notfound"

\* ---------------------------------------------------------------------- C4
\* What an operation returns on an empty collection.
OnEmpty(e) ==
    CASE e.op = "add_task" -> e.result.kind = "added" /\ e.result.id = 1
      [] e.op = "list_tasks" -> e.result = NoTasksYet
      [] e.op = "complete_task" -> e.result = NotFound(e.id)
      [] e.op = "task_list" -> e.result = Contents(Arr(<<>>))

\* C4: a call made while tasks.json exists and holds no valid task
\* collection behaves as on an empty collection, raises no error, and its
\* load rewrites the file as an empty array.
C4_CorruptionRecovered ==
    \A i \in 1..Len(log) :
        LET e == log[i]
        IN  (IsCall(e) /\ e.pre.exists /\ ~IsCollection(e.pre))
            =>
            /\ e.result.kind # "throw"
            /\ OnEmpty(e)
            /\ e.resets = 1
            /\ IsCollection(e.post)
            /\ (e.op # "add_task" => e.post = writeTasks(Arr(<<>>)))

\* ---------------------------------------------------------------------- C5
\* C5: list_tasks called while tasks.json does not exist returns the
\* "no tasks" message, and afterwards the file exists and holds an empty array.
C5_ListCreatesFile ==
    \A i \in 1..Len(log) :
        LET e == log[i]
        IN  (e.op = "list_tasks" /\ ~e.pre.exists)
            =>
            /\ e.result = NoTasksYet
            /\ e.post.exists
            /\ e.post = writeTasks(Arr(<<>>))

\* ---------------------------------------------------------------------- C6
\* A task is told from the others by the three fields no handler changes.
Ident(t) == <<t.id, t.title, t.createdAt>>
TasksIn(f) == {Ident(Stored(f)[i]) : i \in 1..Len(Stored(f))}
CompletedIn(f) ==
    {Ident(Stored(f)[i]) : i \in {j \in 1..Len(Stored(f)) : Stored(f)[j].completed}}
\* the ids stored in f with completed = true
CompletedIds(f) == {Stored(f)[i].id : i \in {j \in 1..Len(Stored(f)) : Stored(f)[j].completed}}

\* C6: a task enters the stored collection with completed = false, and a
\* task stored with completed = true is not stored with completed = false in
\* the next state of the file.
C6_CompletedMonotone ==
    [][ /\ \A t \in TasksIn(file') \ TasksIn(file) : t \notin CompletedIn(file')
        /\ \A t \in CompletedIn(file) \cap TasksIn(file') : t \in CompletedIn(file') ]_vars

\* ---------------------------------------------------------------------- C7
Kinds(k) == SelectSeq(log, LAMBDA e : e.result.kind = k)

\* C7: with tasks.json written by the store alone, once every call has
\* returned the file holds one task per add_task that reported success, and
\* every task whose completion was reported is stored as completed: no
\* effect of a call is lost.
C7_NoLostUpdate ==
    (AllIdle /\ Externals = 0) =>
        /\ Len(Stored(file)) = Len(Kinds("added"))
        /\ \A i \in 1..Len(log) :
              log[i].result.kind = "completed" => log[i].id \in CompletedIds(file)

\* ---------------------------------------------------------------------- C8
\* C8: once a call has returned and no other is in flight, tasks.json
\* exists and holds a well-formed array of task records.
C8_FileValidBetweenCalls ==
    (AllIdle /\ Len(log) > 0 /\ IsCall(log[Len(log)])) => IsCollection(file)

\* ---------------------------------------------------------------------- C9
\* C9: list_tasks returns one entry per stored task, in the order of the
\* collection, with the task's id and title and the status "done" exactly
\* when completed is true and "pending" otherwise; with tasks.json written
\* by the store alone that order is the order of the add_task calls; and
\* add_task(t) on an empty store followed by list_tasks yields the single
\* entry (t, "pending").
C9_ListInInsertionOrder ==
    \A i \in 1..Len(log) :
        LET e == log[i]
            C == Stored(e.pre)
            L == e.result.lines
            adds == AddsBefore(i)
        IN  (e.op = "list_tasks" /\ Loadable(e.pre))
            =>
            /\ (Len(C) = 0 => e.result.kind = "empty")
            /\ (Len(C) > 0 => e.result.kind = "listing" /\ e.result.count = Len(C))
            /\ Len(L) = Len(C)
            /\ \A k \in 1..Len(C) :
                  /\ L[k].id = C[k].id
                  /\ L[k].title = C[k].title
                  /\ L[k].status \in {"done", "pending"}
                  /\ L[k].status = "done" <=> C[k].completed
            /\ Externals = 0 =>
                  /\ Len(L) = Len(adds)
                  /\ \A k \in 1..Len(adds) :
                        L[k].id = adds[k].result.id /\ L[k].title = adds[k].title
            /\ (i > 1 /\ log[i - 1].op = "add_task" /\ Len(Stored(log[i - 1].pre)) = 0
                      /\ Loadable(log[i - 1].pre)) =>
                  /\ Len(L) = 1
                  /\ L[1].status = "pending"
                  /\ L[1].title = log[i - 1].title

\* add_task("Buy milk"), add_task("b"), list_tasks: two entries in that order
C9_Witness ==
    /\ Len(log) = 3
    /\ log[1].op = "add_task" /\ log[1].title = "Buy milk"
    /\ log[2].op = "add_task" /\ log[2].title = "b"
    /\ log[3].op = "list_tasks"
    /\ Len(log[3].result.lines) = 2
    /\ log[3].result.lines[1].title = "Buy milk"
    /\ log[3].result.lines[1].status = "pending"

\* --------------------------------------------------------------------- C10
\* C10: two reads of the task_list resource in a row return the same
\* contents, whatever tasks.json held before the first read.
C10_SnapshotTwice ==
    \A i \in 1..(Len(log) - 1) :
        (log[i].op = "task_list" /\ log[i + 1].op = "task_list")
            => log[i + 1].result = log[i].result

\* two reads in a row, the first on a missing or unparsable file
C10_Witness ==
    \E i \in 1..(Len(log) - 1) :
        /\ log[i].op = "task_list" /\ log[i + 1].op = "task_list"
        /\ ~IsCollection(log[i].pre)
        /\ log[i].result.kind = "json"

\* --------------------------------------------------------------------- C11
IdentSeq(f) == [i \in 1..Len(Stored(f)) |-> Ident(Stored(f)[i])]
IsPrefix(a, b) == Len(a) <= Len(b) /\ \A i \in 1..Len(a) : a[i] = b[i]

\* C11: no step of the store removes a stored task, changes its id, title
\* or createdAt, or reorders the collection: the tasks stored before the step
\* are, in the same order, the first tasks stored after it (a write from
\* outside the store is not a step of the store).
C11_TasksKept ==
    [][ Externals' = Externals => IsPrefix(IdentSeq(file), IdentSeq(file')) ]_vars

\* --------------------------------------------------------------------- C12
\* C12: list_tasks and a read of task_list on a file that holds a valid
\* collection write nothing: no save, no reset, and the file after the call
\* is the file before it.
C12_ReadersWriteNothing ==
    \A i \in 1..Len(log) :
        LET e == log[i]
        IN  (e.op \in {"list_tasks", "task_list"} /\ IsCollection(e.pre))
            => (e.saves = 0 /\ e.resets = 0 /\ e.post = e.pre)

\* both readers after a task was stored
C12_Witness ==
    /\ Len(log) = 3
    /\ log[1].op = "add_task"
    /\ log[2].op = "list_tasks" /\ log[2].result.kind = "listing"
    /\ log[3].op = "task_list" /\ log[3].result.kind = "json"
    /\ Len(Stored(file)) = 1

\* --------------------------------------------------------------------- C13
\* C13: complete_task(id) on a stored task with completed = false saves once
\* and the stored collection afterwards is the collection before with the
\* completed field of the first task with that id set to true and nothing
\* else changed.
C13_CompleteChangesOneField ==
    \A i \in 1..Len(log) :
        LET e == log[i]
            C == Stored(e.pre)
            k == Find(C, e.id)
        IN  (e.op = "complete_task" /\ k # 0 /\ ~C[k].completed)
            =>
            /\ e.result.kind = "completed"
            /\ e.saves = 1
            /\ Len(Stored(e.post)) = Len(C)
            /\ \A j \in 1..Len(C) :
                  /\ Stored(e.post)[j].id = C[j].id
                  /\ Stored(e.post)[j].title = C[j].title
                  /\ Stored(e.post)[j].createdAt = C[j].createdAt
                  /\ Stored(e.post)[j].completed = (IF j = k THEN TRUE ELSE C[j].completed)

\* the second of two stored tasks is completed
C13_Witness ==
    /\ Len(log) = 3
    /\ log[1].op = "add_task" /\ log[2].op = "add_task"
    /\ log[3].op = "complete_task" /\ log[3].id = 2
    /\ log[3].result.kind = "completed"
    /\ Len(Stored(file)) = 2

\* --------------------------------------------------------------------- C14
\* C14: a call in which a storage access fails with EACCES returns no
\* result: the error leaves the handler as it was raised, the failed access
\* is not followed by a save, and a failed read is not followed by a reset,
\* so the file is as it was before the call.
C14_FailurePropagates ==
    \A i \in 1..Len(log) :
        LET e == log[i]
        IN  e.fault # "" =>
                /\ e.result = Rethrown("EACCES")
                /\ ~e.result.isError
                /\ e.saves = 0
                /\ e.fault = "readFile" => (e.resets = 0 /\ e.post = e.pre)

\* a read denied on a file that holds a stored task
C14_Witness ==
    \E i \in 1..Len(log) :
        /\ log[i].fault = "readFile"
        /\ Len(Stored(log[i].pre)) >= 1
        /\ log[i].result.kind = "throw"

\* --------------------------------------------------------------------- C15
\* C15: in every state of tasks.json that calls of the tools can reach,
\* overlapping calls included, the ids of the stored tasks are positive and
\* no two stored tasks have the same id.
C15_IdsDistinctPositive ==
    LET C == Stored(file)
    IN  \A i \in 1..Len(C) :
            /\ C[i].id > 0
            /\ \A j \in 1..Len(C) : C[i].id = C[j].id => i = j

\* three add_task calls of which two overlapped: one update was lost and the
\* file holds two tasks
C15_Witness ==
    /\ Len(log) = 3
    /\ \A i \in 1..3 : log[i].op = "add_task" /\ log[i].result.kind = "added"
    /\ Len(Stored(file)) = 2
    /\ \E i \in 1..3, j \in 1..3 : i # j /\ log[i].result.id = log[j].result.id

\* --------------------------------------------------------------------- C19
\* C19: from a missing store that only calls of the tools write, the ids of
\* the stored tasks strictly increase along the order of the collection in
\* every state, so a task stored later in the array has the larger id.
C19_IdsIncreaseAlongOrder ==
    LET C == Stored(file)
    IN  \A i \in 1..Len(C) : \A j \in 1..Len(C) : i < j => C[i].id < C[j].id

\* two tasks stored while another call is suspended at an await
C19_Witness ==
    /\ Len(Stored(file)) = 2
    /\ Stored(file)[1].id = 1
    /\ Stored(file)[2].id = 2
    /\ InFlight # {}

\* --------------------------------------------------------------------- C16
\* C16: the id add_task takes from getNextId is 1 when the collection it
\* loaded is empty; otherwise it is one more than an id of the collection
\* that no id of the collection exceeds, whatever the order of the ids and
\* whatever gaps they leave.
C16_NextIdIsMaxPlusOne ==
    \A i \in 1..Len(log) :
        LET e == log[i]
            C == Stored(e.pre)
        IN  (e.op = "add_task" /\ IsCollection(e.pre)) =>
                /\ e.result.kind = "added"
                /\ Len(C) = 0 => e.result.id = 1
                /\ Len(C) > 0 =>
                      /\ e.result.id - 1 \in IdsOf(C)
                      /\ \A k \in IdsOf(C) : k <= e.result.id - 1

\* add_task on a collection whose ids are out of order and leave a gap
C16_Witness ==
    \E i \in 1..Len(log) :
        LET C == Stored(log[i].pre)
        IN  /\ log[i].op = "add_task"
            /\ Len(C) = 2
            /\ C[1].id = 3
            /\ C[2].id = 1
            /\ log[i].result.id = 4

\* --------------------------------------------------------------------- C17
\* C17: with tasks.json written by the store alone, the text a read of the
\* task_list resource returns is the content of tasks.json after the read,
\* and it is the encoded empty array when no task is stored.
C17_SnapshotIsFileContent ==
    \A i \in 1..Len(log) :
        LET e == log[i]
        IN  (e.op = "task_list" /\ \A j \in 1..i : IsCall(log[j]))
            =>
            /\ e.result.kind = "json"
            /\ e.post.exists
            /\ e.result.text = e.post.text
            /\ Len(Stored(e.post)) = 0 => e.result.text = JSONstringify(Arr(<<>>))

\* --------------------------------------------------------------------- C18
\* C18: add_task called while tasks.json exists and is not JSON gives the
\* new task id 1, whatever ids were given before, and leaves a file that
\* holds that task and no other.
C18_NumberingRestarts ==
    \A i \in 1..Len(log) :
        LET e == log[i]
        IN  (e.op = "add_task" /\ e.pre.exists /\ ~JSONparse(e.pre.text).ok)
            =>
            /\ e.result.kind = "added"
            /\ e.result.id = 1
            /\ Stored(e.post) = <<Task(1, e.title, FALSE, e.result.createdAt)>>

\* a task stored with id 1, the file overwritten with text that is not JSON,
\* then add_task
C18_Witness ==
    /\ Len(log) = 3
    /\ log[1].op = "add_task" /\ log[1].result.id = 1
    /\ log[2].op = "external" /\ log[2].post.exists /\ ~JSONparse(log[2].post.text).ok
    /\ log[3].op = "add_task" /\ log[3].result.id = 1
    /\ Len(Stored(file)) = 1

====
